---- MODULE Spec2Model ----
(***************************************************************************)
(* Model of crates/aptos/src/op/key.rs: the `aptos key generate` command   *)
(* (GenerateKey::execute, SaveKey::check_key_file, SaveKey::save_key),     *)
(* the encoders behind encode_key and the decoders behind load_key.        *)
(*                                                                         *)
(* File contents and keys are sequences of bytes (0..255); text is its     *)
(* ASCII/UTF-8 bytes.  One behaviour is one run of the command on a file   *)
(* system that holds the two target paths, followed by any number of       *)
(* load_key calls on the files the run left behind.                        *)
(***************************************************************************)
EXTENDS Integers, Sequences, FiniteSets, TLC

\* ------------------------------------------------------------------------
\* Bounds and constants
\* ------------------------------------------------------------------------

\* Number of distinct Ed25519 seeds the random source can return.
NumSeeds == 3

\* Length in bytes of every key handled here (Ed25519 and X25519, private
\* and public).
KeyLength == 32

\* bcs::MAX_SEQUENCE_LENGTH, the largest length prefix BCS accepts.
MaxSequenceLength == 2147483647

Bytes == 0..255

\* ------------------------------------------------------------------------
\* Results of fallible calls: [ok, val, err]; val is always a byte sequence
\* and err always a string, so that results compare.
\* ------------------------------------------------------------------------

Ok(v) == [ok |-> TRUE, val |-> v, err |-> ""]

Err(e) == [ok |-> FALSE, val |-> <<>>, err |-> e]

\* ------------------------------------------------------------------------
\* hex::encode_upper and hex::decode
\* ------------------------------------------------------------------------

HexUpperDigit(n) == IF n < 10 THEN 48 + n ELSE 55 + n

hex_encode_upper(bytes) ==
    [i \in 1..(2 * Len(bytes)) |->
        LET b == bytes[(i + 1) \div 2]
        IN  IF i % 2 = 1 THEN HexUpperDigit(b \div 16) ELSE HexUpperDigit(b % 16)]

\* Value of one hexadecimal digit, -1 for any other byte.  hex::decode
\* accepts both cases.
HexVal(c) ==
    IF c >= 48 /\ c <= 57 THEN c - 48
    ELSE IF c >= 65 /\ c <= 70 THEN c - 55
    ELSE IF c >= 97 /\ c <= 102 THEN c - 87
    ELSE -1

hex_decode(s) ==
    IF Len(s) % 2 # 0 THEN Err("OddLength")
    ELSE IF \E i \in 1..Len(s) : HexVal(s[i]) = -1 THEN Err("InvalidHexCharacter")
    ELSE Ok([i \in 1..(Len(s) \div 2) |->
                16 * HexVal(s[2 * i - 1]) + HexVal(s[2 * i])])

\* ------------------------------------------------------------------------
\* base64::encode and base64::decode (standard alphabet, '=' padding)
\* ------------------------------------------------------------------------

Base64Pad == 61

Base64Char(n) ==
    IF n < 26 THEN 65 + n
    ELSE IF n < 52 THEN 97 + (n - 26)
    ELSE IF n < 62 THEN 48 + (n - 52)
    ELSE IF n = 62 THEN 43
    ELSE 47

Base64Val(c) ==
    IF c >= 65 /\ c <= 90 THEN c - 65
    ELSE IF c >= 97 /\ c <= 122 THEN c - 97 + 26
    ELSE IF c >= 48 /\ c <= 57 THEN c - 48 + 52
    ELSE IF c = 43 THEN 62
    ELSE IF c = 47 THEN 63
    ELSE -1

ByteAt(bytes, i) == IF i <= Len(bytes) THEN bytes[i] ELSE 0

base64_encode(bytes) ==
    LET n == Len(bytes)
        groups == (n + 2) \div 3
    IN  [i \in 1..(4 * groups) |->
            LET g == (i - 1) \div 4
                pos == (i - 1) % 4
                b0 == ByteAt(bytes, 3 * g + 1)
                b1 == ByteAt(bytes, 3 * g + 2)
                b2 == ByteAt(bytes, 3 * g + 3)
            IN  IF pos = 0 THEN Base64Char(b0 \div 4)
                ELSE IF pos = 1 THEN Base64Char((b0 % 4) * 16 + b1 \div 16)
                ELSE IF pos = 2
                     THEN IF 3 * g + 2 > n THEN Base64Pad
                          ELSE Base64Char((b1 % 16) * 4 + b2 \div 64)
                ELSE IF 3 * g + 3 > n THEN Base64Pad
                     ELSE Base64Char(b2 % 64)]

\* Number of '=' bytes at the end of s.
RECURSIVE TrailingPads(_)
TrailingPads(s) ==
    IF Len(s) = 0 \/ s[Len(s)] # Base64Pad THEN 0
    ELSE 1 + TrailingPads(SubSeq(s, 1, Len(s) - 1))

SymAt(data, i) == IF i <= Len(data) THEN Base64Val(data[i]) ELSE 0

\* base64::decode: every byte before the padding is a symbol of the
\* alphabet, at most two '=' close a whole quad, one symbol alone is no
\* byte, and the unused low bits of the last symbol are zero.
base64_decode(s) ==
    LET pads == TrailingPads(s)
        data == SubSeq(s, 1, Len(s) - pads)
        len == Len(data)
        rem == len % 4
        outLen == (len \div 4) * 3 + (IF rem = 2 THEN 1 ELSE IF rem = 3 THEN 2 ELSE 0)
    IN  IF \E i \in 1..len : Base64Val(data[i]) = -1 THEN Err("InvalidByte")
        ELSE IF pads > 2 THEN Err("InvalidByte")
        ELSE IF pads > 0 /\ (len + pads) % 4 # 0 THEN Err("InvalidByte")
        ELSE IF rem = 1 THEN Err("InvalidLength")
        ELSE IF rem = 2 /\ Base64Val(data[len]) % 16 # 0 THEN Err("InvalidLastSymbol")
        ELSE IF rem = 3 /\ Base64Val(data[len]) % 4 # 0 THEN Err("InvalidLastSymbol")
        ELSE Ok([k \in 1..outLen |->
                    LET g == (k - 1) \div 3
                        pos == (k - 1) % 3
                        v0 == SymAt(data, 4 * g + 1)
                        v1 == SymAt(data, 4 * g + 2)
                        v2 == SymAt(data, 4 * g + 3)
                        v3 == SymAt(data, 4 * g + 4)
                    IN  IF pos = 0 THEN v0 * 4 + v1 \div 16
                        ELSE IF pos = 1 THEN (v1 % 16) * 16 + v2 \div 4
                        ELSE (v2 % 4) * 64 + v3])

\* ------------------------------------------------------------------------
\* BCS of a key: the key's bytes behind a ULEB128 length prefix
\* ------------------------------------------------------------------------

RECURSIVE uleb128_encode(_)
uleb128_encode(n) ==
    IF n < 128 THEN <<n>> ELSE <<128 + (n % 128)>> \o uleb128_encode(n \div 128)

\* [ok, val, next]: the length read from data and the index after it.
RECURSIVE uleb128_decode(_, _, _, _)
uleb128_decode(data, i, shift, acc) ==
    IF i > Len(data) THEN [ok |-> FALSE, val |-> 0, next |-> i]
    ELSE LET b == data[i]
             digit == b % 128
             value == acc + digit * (2 ^ shift)
         IN  IF shift = 28 /\ (b >= 128 \/ digit >= 16)
             THEN [ok |-> FALSE, val |-> 0, next |-> i]
             ELSE IF b < 128
                  THEN IF shift > 0 /\ digit = 0
                       THEN [ok |-> FALSE, val |-> 0, next |-> i]
                       ELSE [ok |-> TRUE, val |-> value, next |-> i + 1]
                  ELSE uleb128_decode(data, i + 1, shift + 7, value)

\* bcs::to_bytes(key): the key's Serialize implementation hands its bytes to
\* the serializer; ser_ok is whether that implementation succeeds.  The
\* serializer itself fails past MAX_SEQUENCE_LENGTH.
bcs_to_bytes(bytes, ser_ok) ==
    IF ~ser_ok THEN Err("Custom")
    ELSE IF Len(bytes) > MaxSequenceLength THEN Err("ExceededMaxLen")
    ELSE Ok(uleb128_encode(Len(bytes)) \o bytes)

\* The byte sequence bcs::from_bytes reads: a length, that many bytes, and
\* nothing after them.
bcs_from_bytes(data) ==
    LET l == uleb128_decode(data, 1, 0, 0)
    IN  IF ~l.ok THEN Err("Eof")
        ELSE IF l.val > MaxSequenceLength THEN Err("ExceededMaxLen")
        ELSE IF l.next - 1 + l.val > Len(data) THEN Err("Eof")
        ELSE IF l.next - 1 + l.val < Len(data) THEN Err("RemainingInput")
        ELSE Ok(SubSeq(data, l.next, l.next - 1 + l.val))

\* ------------------------------------------------------------------------
\* String::from_utf8 and str::trim
\* ------------------------------------------------------------------------

IsCont(s, i) == i <= Len(s) /\ s[i] >= 128 /\ s[i] <= 191

\* Length of the well-formed UTF-8 sequence that starts at s[i], 0 if none.
Utf8CharLen(s, i) ==
    LET b == s[i]
    IN  IF b < 128 THEN 1
        ELSE IF b >= 194 /\ b <= 223 THEN (IF IsCont(s, i + 1) THEN 2 ELSE 0)
        ELSE IF b >= 224 /\ b <= 239
             THEN IF /\ IsCont(s, i + 1)
                     /\ IsCont(s, i + 2)
                     /\ (b = 224 => s[i + 1] >= 160)
                     /\ (b = 237 => s[i + 1] <= 159)
                  THEN 3 ELSE 0
        ELSE IF b >= 240 /\ b <= 244
             THEN IF /\ IsCont(s, i + 1)
                     /\ IsCont(s, i + 2)
                     /\ IsCont(s, i + 3)
                     /\ (b = 240 => s[i + 1] >= 144)
                     /\ (b = 244 => s[i + 1] <= 143)
                  THEN 4 ELSE 0
        ELSE 0

RECURSIVE Utf8ValidFrom(_, _)
Utf8ValidFrom(s, i) ==
    IF i > Len(s) THEN TRUE
    ELSE LET n == Utf8CharLen(s, i)
         IN  IF n = 0 THEN FALSE ELSE Utf8ValidFrom(s, i + n)

\* String::from_utf8(data) is Ok exactly for well-formed UTF-8.
from_utf8_ok(data) == Utf8ValidFrom(data, 1)

\* The encoded White_Space character of 1, 2 or 3 bytes in s[i..j], if any.
IsWhiteSpace(s, i, j) ==
    /\ i >= 1
    /\ j <= Len(s)
    /\ \/ j = i /\ (s[i] = 32 \/ (s[i] >= 9 /\ s[i] <= 13))
       \/ j = i + 1 /\ s[i] = 194 /\ (s[j] = 133 \/ s[j] = 160)
       \/ /\ j = i + 2
          /\ \/ s[i] = 225 /\ s[i + 1] = 154 /\ s[j] = 128
             \/ /\ s[i] = 226
                /\ s[i + 1] = 128
                /\ ((s[j] >= 128 /\ s[j] <= 138) \/ s[j] = 168 \/ s[j] = 169 \/ s[j] = 175)
             \/ s[i] = 226 /\ s[i + 1] = 129 /\ s[j] = 159
             \/ s[i] = 227 /\ s[i + 1] = 128 /\ s[j] = 128

RECURSIVE TrimStart(_)
TrimStart(s) ==
    IF \E n \in 1..3 : IsWhiteSpace(s, 1, n)
    THEN LET n == CHOOSE k \in 1..3 : IsWhiteSpace(s, 1, k)
         IN  TrimStart(SubSeq(s, n + 1, Len(s)))
    ELSE s

RECURSIVE TrimEnd(_)
TrimEnd(s) ==
    IF \E n \in 1..3 : IsWhiteSpace(s, Len(s) - n + 1, Len(s))
    THEN LET n == CHOOSE k \in 1..3 : IsWhiteSpace(s, Len(s) - k + 1, Len(s))
         IN  TrimEnd(SubSeq(s, 1, Len(s) - n))
    ELSE s

\* str::trim on the bytes of a valid string.
trim(s) == TrimEnd(TrimStart(s))

\* ------------------------------------------------------------------------
\* Keys (aptos_crypto): generation, conversion, public keys, import
\* ------------------------------------------------------------------------

KeyTypes == {"Ed25519", "X25519"}

EncodingTypes == {"Hex", "BCS", "Base64"}

\* The i-th private key Ed25519PrivateKey::generate can return.
SeedKey(i) == [j \in 1..KeyLength |-> (i * 89 + j * (2 * i + 1) * 7) % 256]

Seeds == {SeedKey(i) : i \in 1..NumSeeds}

\* X25519 clamping of a scalar.
Clamp(b) ==
    [j \in 1..Len(b) |->
        IF j = 1 THEN b[j] - (b[j] % 8)
        ELSE IF j = Len(b) THEN (b[j] % 64) + 64
        ELSE b[j]]

\* The expansion of the Ed25519 private bytes the conversion starts from
\* (a hash in the library; here a fixed byte-wise mixing).
Expand(b) == [j \in 1..Len(b) |-> (b[j] * 5 + b[(j % Len(b)) + 1] + 17) % 256]

\* Whether the conversion accepts the Ed25519 private bytes.
ConversionAccepts(b) == Len(b) = KeyLength /\ b[1] % 4 # 0

\* x25519::PrivateKey::from_ed25519_private_bytes: a fixed function of the
\* Ed25519 private bytes, either a rejection or the X25519 private key.
from_ed25519_private_bytes(b) ==
    IF ConversionAccepts(b) THEN Ok(Clamp(Expand(b))) ELSE Err("DeserializationError")

\* PrivateKey::public_key, per key type.
public_key(key_type, private) ==
    IF key_type = "Ed25519"
    THEN [j \in 1..Len(private) |-> (private[j] * 3 + 7 * j + 1) % 256]
    ELSE [j \in 1..Len(private) |-> (private[j] * 5 + 11 * j + 2) % 256]

\* Key::try_from(&[u8]): a key is exactly KeyLength bytes.
try_from(bytes) == IF Len(bytes) = KeyLength THEN Ok(bytes) ELSE Err("WrongLengthError")

\* ValidCryptoMaterialStringExt::from_encoded_string: hexadecimal text to a
\* key.
from_encoded_string(str) ==
    LET bytes == hex_decode(str)
    IN  IF bytes.ok THEN try_from(bytes.val) ELSE Err("DeserializationError")

\* ------------------------------------------------------------------------
\* The command's errors and files
\* ------------------------------------------------------------------------

\* An Error value: its variant and, for IO and BCS, the label it carries.
Error(variant, label) == [variant |-> variant, label |-> label]

Running == Error("Running", "")

Success == Error("Ok", "")

\* append_file_extension(file, extension)
append_file_extension(file, extension) == file \o extension

\* SaveKey.key_file, as given on the command line.
key_file == "k"

\* SaveKey::public_key_file
public_key_file == append_file_extension(key_file, ".pub")

Paths == {key_file, public_key_file}

NoFile == [exists |-> FALSE, data |-> <<>>]

File(data) == [exists |-> TRUE, data |-> data]

\* What a target path may hold before the command runs: nothing, or some
\* earlier content ("old\n").
PriorFiles == {NoFile, File(<<111, 108, 100, 10>>)}

\* The key_name the key type is saved under.
KeyName(kt) == IF kt = "X25519" THEN "x22519" ELSE "ed22519"

\* ------------------------------------------------------------------------
\* check_if_file_exists
\* ------------------------------------------------------------------------

\* Whether check_if_file_exists gets as far as calling prompt_yes: `&&`
\* evaluates it only for an existing file without --assume-yes.
PromptIgnoringAssumeYes(exists, yes) == exists

prompt_invoked(exists, yes) == exists /\ ~yes

\* The result of check_if_file_exists, answer being what prompt_yes
\* returned when it was called.
CheckAlwaysOk(exists, yes, answer) == Ok(<<>>)

check_if_file_exists(exists, yes, answer) ==
    IF exists /\ ~yes /\ ~answer THEN Err("AbortedError") ELSE Ok(<<>>)

\* SaveKey::check_key_file: the check that follows the one at `at`.
CheckOnlyKeyFile(at) == "seed"

check_key_file_next(at) == IF at = "check_key" THEN "check_pub" ELSE "seed"

\* ------------------------------------------------------------------------
\* encode_key, write_to_file, save_key
\* ------------------------------------------------------------------------

\* encode_key with the BCS branch returning the bare key bytes.
EncodeKeyBcsNoLength(encoding_type, key, ser_ok) ==
    IF encoding_type = "Hex" THEN Ok(hex_encode_upper(key))
    ELSE IF encoding_type = "BCS" THEN (IF ser_ok THEN Ok(key) ELSE Err("BCS"))
    ELSE Ok(base64_encode(key))

encode_key(encoding_type, key, ser_ok) ==
    IF encoding_type = "Hex" THEN Ok(hex_encode_upper(key))
    ELSE IF encoding_type = "BCS"
         THEN LET r == bcs_to_bytes(key, ser_ok)
              IN  IF r.ok THEN r ELSE Err("BCS")
    ELSE Ok(base64_encode(key))

\* save_key's encoded_public_key, with the private key encoded in its place.
EncodePrivateAsPublic(encoding_type, kt, key, ser_ok) == encode_key(encoding_type, key, ser_ok)

encoded_public_key_of(encoding_type, kt, key, ser_ok) ==
    encode_key(encoding_type, public_key(kt, key), ser_ok)

\* write_to_file: File::create (create_ok) truncates the file, write_all
\* then writes n of the bytes; less than all of them is an error.  Returns
\* the file system and the result.
WriteToFileLabelPath(fsys, path, name, encoded_key, create_ok, n) ==
    IF ~create_ok THEN [fs |-> fsys, res |-> Error("IO", path)]
    ELSE IF n < Len(encoded_key)
         THEN [fs |-> [fsys EXCEPT ![path] = File(SubSeq(encoded_key, 1, n))],
               res |-> Error("IO", path)]
    ELSE [fs |-> [fsys EXCEPT ![path] = File(encoded_key)], res |-> Success]

WriteToFileIgnoreError(fsys, path, name, encoded_key, create_ok, n) ==
    IF ~create_ok THEN [fs |-> fsys, res |-> Success]
    ELSE [fs |-> [fsys EXCEPT ![path] = File(SubSeq(encoded_key, 1, n))], res |-> Success]

write_to_file(fsys, path, name, encoded_key, create_ok, n) ==
    IF ~create_ok THEN [fs |-> fsys, res |-> Error("IO", name)]
    ELSE IF n < Len(encoded_key)
         THEN [fs |-> [fsys EXCEPT ![path] = File(SubSeq(encoded_key, 1, n))],
               res |-> Error("IO", name)]
    ELSE [fs |-> [fsys EXCEPT ![path] = File(encoded_key)], res |-> Success]

\* How many bytes write_all may have written when it returns: all of them,
\* or fewer when it fails.
WriteLengths(len) == {0, 1, len \div 2, len - 1, len} \cap 0..len

\* save_key: the step that follows the step `at`.
SaveKeyWriteBeforePublic(at) ==
    IF at = "encode_private" THEN "write_private"
    ELSE IF at = "write_private" THEN "encode_public"
    ELSE IF at = "encode_public" THEN "write_public"
    ELSE "done"

save_key_next(at) ==
    IF at = "encode_private" THEN "encode_public"
    ELSE IF at = "encode_public" THEN "write_private"
    ELSE IF at = "write_private" THEN "write_public"
    ELSE "done"

\* ------------------------------------------------------------------------
\* GenerateKey::execute: the private key made of the Ed25519 key
\* ------------------------------------------------------------------------

DeriveWithoutConversion(kt, ed_key) == Ok(ed_key)

derive_private_key(kt, ed_key) ==
    IF kt = "X25519"
    THEN LET r == from_ed25519_private_bytes(ed_key)
         IN  IF r.ok THEN r ELSE Err("UnexpectedError")
    ELSE Ok(ed_key)

\* ------------------------------------------------------------------------
\* load_key
\* ------------------------------------------------------------------------

Loaded(variant, key) == [variant |-> variant, key |-> key]

load_key(fsys, path, encoding_type) ==
    IF ~fsys[path].exists THEN Loaded("UnableToReadFile", <<>>)
    ELSE LET data == fsys[path].data
         IN  IF encoding_type = "BCS"
             THEN LET bytes == bcs_from_bytes(data)
                      key == IF bytes.ok THEN try_from(bytes.val) ELSE bytes
                  IN  IF key.ok THEN Loaded("Ok", key.val) ELSE Loaded("BCS", <<>>)
             ELSE IF ~from_utf8_ok(data) THEN Loaded("panic", <<>>)
             ELSE IF encoding_type = "Hex"
                  THEN LET key == from_encoded_string(trim(data))
                       IN  IF key.ok THEN Loaded("Ok", key.val)
                           ELSE Loaded("UnableToParse", <<>>)
             ELSE LET bytes == base64_decode(trim(data))
                  IN  IF ~bytes.ok THEN Loaded("UnableToParse", <<>>)
                      ELSE LET key == try_from(bytes.val)
                           IN  IF key.ok THEN Loaded("Ok", key.val)
                               ELSE Loaded("UnexpectedError", <<>>)

\* ------------------------------------------------------------------------
\* State
\* ------------------------------------------------------------------------

VARIABLES
    fs,                  \* the two target paths: [exists, data]
    key_type,            \* GenerateKey.key_type
    encoding,            \* SaveKey.encoding_options.encoding
    assume_yes,          \* SaveKey.prompt_options.assume_yes
    pc,                  \* where execute is
    result,              \* what execute returned, Running before it returns
    ed25519_key,         \* execute's ed25519_key, <<>> before it is drawn
    private_key,         \* the key handed to save_key
    encoded_private_key, \* save_key's locals
    encoded_public_key,
    loaded,              \* the last load_key call: [path, encoding, res]
    fs0,                 \* history: the files before the run
    checked,             \* history: paths check_if_file_exists was called on
    passed,              \* history: paths check_if_file_exists returned Ok for
    prompted,            \* history: paths prompt_yes was called for
    declined,            \* history: paths prompt_yes answered no for
    seeds_drawn,         \* history: calls of Ed25519PrivateKey::generate
    encoded,             \* history: which encode_key calls returned
    opened,              \* history: paths File::create created or truncated
    written,             \* history: paths write_to_file returned Ok for
    faults,              \* history: the failures that occurred, in order
    visited              \* history: the steps execute has been at

vars == <<fs, key_type, encoding, assume_yes, pc, result, ed25519_key, private_key,
          encoded_private_key, encoded_public_key, loaded, fs0, checked, passed,
          prompted, declined, seeds_drawn, encoded, opened, written, faults, visited>>

params == <<key_type, encoding, assume_yes, fs0>>

keys == <<ed25519_key, private_key, seeds_drawn>>

encodings == <<encoded_private_key, encoded_public_key, encoded>>

guard == <<checked, passed, prompted, declined>>

disk == <<fs, opened, written>>

Terminal == {"done", "failed"}

NotLoaded == [path |-> "", encoding |-> "", res |-> Loaded("None", <<>>)]

Init ==
    /\ fs \in [Paths -> PriorFiles]
    /\ fs0 = fs
    /\ key_type \in KeyTypes
    /\ encoding \in EncodingTypes
    /\ assume_yes \in BOOLEAN
    /\ pc = "check_key"
    /\ result = Running
    /\ ed25519_key = <<>>
    /\ private_key = <<>>
    /\ encoded_private_key = <<>>
    /\ encoded_public_key = <<>>
    /\ loaded = NotLoaded
    /\ checked = {}
    /\ passed = {}
    /\ prompted = {}
    /\ declined = {}
    /\ seeds_drawn = 0
    /\ encoded = {}
    /\ opened = {}
    /\ written = {}
    /\ faults = <<>>
    /\ visited = {"check_key"}

\* execute moves to step `to`.
Goto(to) ==
    /\ pc' = to
    /\ visited' = visited \cup {to}

\* execute returns err (the `?` operator, or the last expression).
Return(err) ==
    /\ Goto("failed")
    /\ result' = err

\* ------------------------------------------------------------------------
\* check_key_file
\* ------------------------------------------------------------------------

\* check_if_file_exists(path, assume_yes) returns, prompt_yes having
\* answered `answer` if it was called.
CheckReturns(at, path, answer) ==
    LET r == check_if_file_exists(fs[path].exists, assume_yes, answer)
    IN  IF r.ok
        THEN /\ passed' = passed \cup {path}
             /\ Goto(check_key_file_next(at))
             /\ UNCHANGED result
        ELSE /\ Return(Error(r.err, ""))
             /\ UNCHANGED passed

\* check_if_file_exists is called on `path`: it returns at once, or calls
\* prompt_yes and waits for the answer.
Check(at, waiting, path) ==
    /\ pc = at
    /\ checked' = checked \cup {path}
    /\ IF prompt_invoked(fs[path].exists, assume_yes)
       THEN /\ prompted' = prompted \cup {path}
            /\ Goto(waiting)
            /\ UNCHANGED <<passed, result>>
       ELSE /\ CheckReturns(at, path, TRUE)
            /\ UNCHANGED prompted
    /\ UNCHANGED <<declined, faults, disk, params, keys, encodings, loaded>>

\* prompt_yes returns `answer`.
Answer(at, waiting, path, answer) ==
    /\ pc = waiting
    /\ CheckReturns(at, path, answer)
    /\ declined' = IF answer THEN declined ELSE declined \cup {path}
    /\ faults' = IF answer THEN faults ELSE Append(faults, "declined")
    /\ UNCHANGED <<checked, prompted, disk, params, keys, encodings, loaded>>

CheckKeyFile == Check("check_key", "prompt_key", key_file)

AnswerKeyFile == \E answer \in BOOLEAN : Answer("check_key", "prompt_key", key_file, answer)

CheckPublicKeyFile == Check("check_pub", "prompt_pub", public_key_file)

AnswerPublicKeyFile ==
    \E answer \in BOOLEAN : Answer("check_pub", "prompt_pub", public_key_file, answer)

\* ------------------------------------------------------------------------
\* execute after the checks
\* ------------------------------------------------------------------------

\* Ed25519PrivateKey::generate(&mut rng)
GenerateSeed ==
    /\ pc = "seed"
    /\ \E seed \in Seeds : ed25519_key' = seed
    /\ seeds_drawn' = seeds_drawn + 1
    /\ Goto("derive")
    /\ UNCHANGED <<private_key, result, faults, guard, disk, params, encodings, loaded>>

\* match self.key_type
Derive ==
    /\ pc = "derive"
    /\ LET r == derive_private_key(key_type, ed25519_key)
       IN  IF r.ok
           THEN /\ private_key' = r.val
                /\ Goto("encode_private")
                /\ UNCHANGED result
           ELSE /\ Return(Error(r.err, ""))
                /\ UNCHANGED private_key
    /\ faults' = IF key_type = "X25519" /\ ~ConversionAccepts(ed25519_key)
                 THEN Append(faults, "conversion")
                 ELSE faults
    /\ UNCHANGED <<ed25519_key, seeds_drawn, guard, disk, params, encodings, loaded>>

\* save_key: encode_key(encoding, key, key_name)?
EncodePrivate ==
    /\ pc = "encode_private"
    /\ \E ser_ok \in BOOLEAN :
          LET r == encode_key(encoding, private_key, ser_ok)
          IN  /\ IF r.ok
                 THEN /\ encoded_private_key' = r.val
                      /\ encoded' = encoded \cup {"private"}
                      /\ Goto(save_key_next("encode_private"))
                      /\ UNCHANGED result
                 ELSE /\ Return(Error(r.err, KeyName(key_type)))
                      /\ UNCHANGED <<encoded_private_key, encoded>>
              /\ faults' = IF encoding = "BCS" /\ ~ser_ok
                           THEN Append(faults, "ser_private")
                           ELSE faults
    /\ UNCHANGED <<encoded_public_key, guard, disk, params, keys, loaded>>

\* save_key: encode_key(encoding, &key.public_key(), key_name)?
EncodePublic ==
    /\ pc = "encode_public"
    /\ \E ser_ok \in BOOLEAN :
          LET r == encoded_public_key_of(encoding, key_type, private_key, ser_ok)
          IN  /\ IF r.ok
                 THEN /\ encoded_public_key' = r.val
                      /\ encoded' = encoded \cup {"public"}
                      /\ Goto(save_key_next("encode_public"))
                      /\ UNCHANGED result
                 ELSE /\ Return(Error(r.err, KeyName(key_type)))
                      /\ UNCHANGED <<encoded_public_key, encoded>>
              /\ faults' = IF encoding = "BCS" /\ ~ser_ok
                           THEN Append(faults, "ser_public")
                           ELSE faults
    /\ UNCHANGED <<encoded_private_key, guard, disk, params, keys, loaded>>

\* save_key: write_to_file(path, key_name, encoded_key), the last one being
\* what save_key and execute return.
Write(at, path, encoded_key, fault) ==
    /\ pc = at
    /\ \E create_ok \in BOOLEAN, n \in WriteLengths(Len(encoded_key)) :
          LET w == write_to_file(fs, path, KeyName(key_type), encoded_key, create_ok, n)
              to == save_key_next(at)
          IN  /\ fs' = w.fs
              /\ opened' = IF create_ok THEN opened \cup {path} ELSE opened
              /\ IF w.res = Success
                 THEN /\ written' = written \cup {path}
                      /\ Goto(to)
                      /\ result' = IF to = "done" THEN Success ELSE result
                 ELSE /\ Return(w.res)
                      /\ UNCHANGED written
              /\ faults' = IF ~create_ok \/ n < Len(encoded_key)
                           THEN Append(faults, fault)
                           ELSE faults
    /\ UNCHANGED <<guard, params, keys, encodings, loaded>>

WritePrivate == Write("write_private", key_file, encoded_private_key, "io_private")

WritePublic == Write("write_public", public_key_file, encoded_public_key, "io_public")

\* load_key(path, encoding_type) on the files the run left.
Load ==
    /\ pc \in Terminal
    /\ \E path \in Paths, encoding_type \in EncodingTypes :
          loaded' = [path |-> path, encoding |-> encoding_type,
                     res |-> load_key(fs, path, encoding_type)]
    /\ UNCHANGED <<pc, visited, result, faults, guard, disk, params, keys, encodings>>

\* The steps of one execute call.
Run ==
    \/ CheckKeyFile
    \/ AnswerKeyFile
    \/ CheckPublicKeyFile
    \/ AnswerPublicKeyFile
    \/ GenerateSeed
    \/ Derive
    \/ EncodePrivate
    \/ EncodePublic
    \/ WritePrivate
    \/ WritePublic

Next ==
    \/ CheckKeyFile
    \/ AnswerKeyFile
    \/ CheckPublicKeyFile
    \/ AnswerPublicKeyFile
    \/ GenerateSeed
    \/ Derive
    \/ EncodePrivate
    \/ EncodePublic
    \/ WritePrivate
    \/ WritePublic
    \/ Load

Spec == Init /\ [][Next]_vars

\* execute runs on: every step that can be taken is taken, and the
\* operator answers the prompt.
FairSpec == Spec /\ WF_vars(Run)

\* ------------------------------------------------------------------------
\* Properties
\* ------------------------------------------------------------------------

Aborted == Error("AbortedError", "")

BothExisted == \A p \in Paths : fs0[p].exists

IoFaults == {"io_private", "io_public"}

NoIoFault == \A i \in 1..Len(faults) : faults[i] \notin IoFaults

\* The files a successful run leaves for private_key.
NewPair ==
    /\ fs[key_file] = File(encode_key(encoding, private_key, TRUE).val)
    /\ fs[public_key_file] =
           File(encode_key(encoding, public_key(key_type, private_key), TRUE).val)

\* C1: without --assume-yes, once the prompt for either existing path is
\* answered no, execute has returned AbortedError and no file has been
\* created, truncated or written: both files are as they were before the
\* call, also when the first prompt was confirmed and the second declined.
C1_DeclineAbortsBeforeAnyWrite ==
    declined # {} =>
        /\ ~assume_yes
        /\ \A p \in declined : fs0[p].exists
        /\ pc = "failed"
        /\ result = Aborted
        /\ fs = fs0
        /\ opened = {}
        /\ written = {}

C1_Witness ==
    /\ declined = {public_key_file}
    /\ prompted = Paths
    /\ passed = {key_file}
    /\ pc = "failed"

KeyAt(path) ==
    IF path = key_file THEN private_key ELSE public_key(key_type, private_key)

\* C3: a file that holds encode_key(E, key), read back by load_key with the
\* same E, gives the key's bytes: for the private and the public key, both
\* key types and the three encodings.
C3_RoundTrip ==
    (pc = "done" /\ loaded.path # "" /\ loaded.encoding = encoding) =>
        /\ fs[loaded.path] = File(encode_key(encoding, KeyAt(loaded.path), TRUE).val)
        /\ loaded.res = Loaded("Ok", KeyAt(loaded.path))

C3_Witness ==
    /\ pc = "done"
    /\ key_type = "X25519"
    /\ encoding = "BCS"
    /\ loaded.path = public_key_file
    /\ loaded.encoding = "BCS"
    /\ loaded.res.variant = "Ok"

\* C4: load_key with Base64 on a file holding the Hex encoding of a key, and
\* load_key with Hex on a file holding the Base64 encoding of a key, fail
\* with UnableToParse (no panic, no key, no other error variant).
C4_FormatRejection ==
    (/\ pc = "done"
     /\ loaded.path # ""
     /\ \/ encoding = "Hex" /\ loaded.encoding = "Base64"
        \/ encoding = "Base64" /\ loaded.encoding = "Hex") =>
        loaded.res = Loaded("UnableToParse", <<>>)

\* C5: after a successful run the two files are a matching pair in the
\* run's encoding: the public file holds the encoding of the public key of
\* the private key that load_key reads from the private file.
C5_MatchingPair ==
    pc = "done" =>
        LET k == load_key(fs, key_file, encoding)
        IN  /\ k.variant = "Ok"
            /\ fs[public_key_file] =
                   File(encode_key(encoding, public_key(key_type, k.key), TRUE).val)

C5_Witness ==
    /\ pc = "done"
    /\ key_type = "X25519"
    /\ encoding = "Base64"
    /\ BothExisted

\* The stage of the generate state machine a step belongs to: INIT, SEED,
\* DERIVE, PERSIST, then the terminal states.
StageOf(p) ==
    IF p \in {"check_key", "prompt_key", "check_pub", "prompt_pub"} THEN 1
    ELSE IF p = "seed" THEN 2
    ELSE IF p = "derive" THEN 3
    ELSE IF p \in {"encode_private", "encode_public", "write_private", "write_public"}
         THEN 4
    ELSE 5

\* The error each failure is reported as.
FaultError(f) ==
    IF f = "declined" THEN "AbortedError"
    ELSE IF f = "conversion" THEN "UnexpectedError"
    ELSE IF f \in IoFaults THEN "IO"
    ELSE "BCS"

C6_Step ==
    /\ StageOf(pc') >= StageOf(pc)
    /\ pc' # pc => pc' \notin visited
    /\ pc \in Terminal => (pc' = pc /\ result' = result)
    /\ faults' # faults =>
           /\ faults = <<>>
           /\ Len(faults') = 1
           /\ pc' = "failed"
           /\ result'.variant = FaultError(faults'[1])
    /\ (pc' = "failed" /\ pc # "failed") => faults' # faults
    /\ pc' = "done" => (faults' = <<>> /\ result' = Success)

\* C6: generate runs INIT, SEED, DERIVE, PERSIST in this order, enters no
\* step twice, and ends (the prompt being answered) in one terminal state,
\* which it never leaves: the first failure moves straight to FAILED, no
\* step runs after it, and the error returned is the error of that failure.
C6_LinearNoRetry == [][C6_Step]_vars /\ <>(pc \in Terminal)

C6_Witness ==
    /\ pc = "failed"
    /\ faults = <<"conversion">>
    /\ visited = {"check_key", "prompt_key", "check_pub", "seed", "derive", "failed"}

\* C7, as stated: every execution draws exactly one Ed25519 seed key.
C7_Original == pc \in Terminal => seeds_drawn = 1

PersistReached ==
    \/ pc \in {"encode_private", "encode_public", "write_private", "write_public", "done"}
    \/ pc = "failed" /\ result.variant \in {"BCS", "IO"}

\* C7, amended: an execution that passes both overwrite checks draws exactly
\* one Ed25519 seed key, and one that ends in AbortedError draws none; the
\* private key handed to save_key is the seed itself for Ed25519 and the
\* fixed conversion of the seed's bytes for X25519, never anything else; and
\* if the conversion rejects the seed, execute fails with UnexpectedError.
C7_SeedDeterminesKey ==
    /\ seeds_drawn =
           (IF StageOf(pc) = 1 \/ pc = "seed" \/ (pc = "failed" /\ result = Aborted)
            THEN 0 ELSE 1)
    /\ seeds_drawn = 1 => ed25519_key \in Seeds
    /\ PersistReached =>
           private_key = (IF key_type = "Ed25519" THEN ed25519_key
                          ELSE from_ed25519_private_bytes(ed25519_key).val)
    /\ (PersistReached /\ key_type = "X25519") =>
           from_ed25519_private_bytes(ed25519_key).ok
    /\ (/\ pc \in Terminal
        /\ seeds_drawn = 1
        /\ key_type = "X25519"
        /\ ~from_ed25519_private_bytes(ed25519_key).ok) =>
           (pc = "failed" /\ result = Error("UnexpectedError", ""))

C7_Witness ==
    /\ pc = "done"
    /\ key_type = "X25519"
    /\ seeds_drawn = 1
    /\ private_key # ed25519_key

\* C8: a failing write makes execute return IO carrying the key_name label
\* of the write, and nothing is undone: when the private key is written and
\* the public write fails, the private file keeps the new key while the
\* public file is as it was or holds an incomplete write.
C8_IoErrorNoRollback ==
    /\ ~NoIoFault => (pc = "failed" /\ result = Error("IO", KeyName(key_type)))
    /\ result.variant = "IO" => (faults = <<"io_private">> \/ faults = <<"io_public">>)
    /\ faults = <<"io_private">> =>
           (written = {} /\ fs[public_key_file] = fs0[public_key_file])
    /\ faults = <<"io_public">> =>
           /\ written = {key_file}
           /\ fs[key_file] = File(encode_key(encoding, private_key, TRUE).val)
           /\ \/ fs[public_key_file] = fs0[public_key_file]
              \/ /\ public_key_file \in opened
                 /\ Len(fs[public_key_file].data) < Len(encoded_public_key)
                 /\ fs[public_key_file] =
                        File(SubSeq(encoded_public_key, 1, Len(fs[public_key_file].data)))

C8_Witness ==
    /\ pc = "failed"
    /\ faults = <<"io_public">>
    /\ public_key_file \in opened
    /\ fs[key_file] # fs0[key_file]

\* C9, as stated: in every terminal state both files were checked and both
\* written, or neither was written; never exactly one checked or written.
C9_Original ==
    pc \in Terminal =>
        /\ (checked = Paths /\ written = Paths) \/ written = {}
        /\ Cardinality(checked) # 1
        /\ Cardinality(written) # 1

\* C9, amended: the public path is checked only after the private path
\* passed its check, a file is written only after both paths passed, the
\* public file is written only after the private file, and a run succeeds
\* exactly when both are written.  A terminal state with exactly one path
\* checked is the private path declined (AbortedError); one with exactly one
\* file written is the private file written and the public write failed
\* (IO).
C9_PairOrder ==
    /\ public_key_file \in checked => key_file \in passed
    /\ opened # {} => passed = Paths
    /\ written \subseteq opened
    /\ public_key_file \in opened => key_file \in written
    /\ pc = "done" <=> written = Paths
    /\ (pc \in Terminal /\ Cardinality(checked) = 1) =>
           (checked = {key_file} /\ declined = {key_file} /\ result = Aborted)
    /\ (pc \in Terminal /\ Cardinality(written) = 1) =>
           (written = {key_file} /\ result.variant = "IO")

C9_Witness == pc = "failed" /\ written = {key_file} /\ checked = Paths

\* C10: both checks, the derivation and the encoding of both keys are over
\* before the private file is created or truncated, so a failure before the
\* first write (AbortedError, UnexpectedError, BCS) leaves both files
\* exactly as they were.
C10_FailureBeforeWriteLeavesFiles ==
    /\ opened # {} =>
           /\ passed = Paths
           /\ seeds_drawn = 1
           /\ Len(private_key) = KeyLength
           /\ encoded = {"private", "public"}
    /\ opened = {} => fs = fs0
    /\ (pc = "failed" /\ result.variant \in {"AbortedError", "UnexpectedError", "BCS"}) =>
           (opened = {} /\ fs = fs0)

C10_Witness ==
    /\ pc = "failed"
    /\ result = Error("BCS", KeyName(key_type))
    /\ faults = <<"ser_public">>
    /\ BothExisted
    /\ fs = fs0

====
